---- MODULE Spec2Model ----
(***************************************************************************)
(* Model of src/main.py: a Playwright script that, for each search query,  *)
(* scrolls the Google Maps results panel until enough place links are      *)
(* counted, clicks each listing, extracts a Business record and saves the  *)
(* BusinessList of the query as an xlsx and a csv file.                    *)
(*                                                                         *)
(* Text is a sequence of one-character strings.  An optional value is <<>> *)
(* (Python None) or <<v>>.  A character outside printable ASCII is written *)
(* by its code point, "U+00A0".  A finite float is [kind, mant, exp], the  *)
(* number mant / 10^exp where mant is no multiple of 10; inf, nan, minus   *)
(* zero and the smallest subnormal numbers have their own kind.            *)
(***************************************************************************)
EXTENDS Integers, Sequences, FiniteSets, TLC

VARIABLES
    pc,                 \* position of main() in its code
    args,               \* argparse result: [search, total], each optional
    input_file,         \* input.txt: <<>> when missing, else <<lines>>
    search_list,        \* main.search_list
    total,              \* main.total
    search_for_index,   \* 1-based position in search_list of the current query
    search_for,         \* main.search_for (stripped query text)
    browser,            \* "closed" | "open"
    panel,              \* number of place links now in the results panel (DOM),
                        \* followed from Enter to the enumeration of the links
    links_seen,         \* whether the panel has held a place link since Enter
                        \* was pressed for this query
    previously_counted, \* main.previously_counted
    count,              \* main.count
    branch,             \* how the discovery loop ended: "none" | "target" | "nogrowth"
    listings,           \* main.listings: sequence of entry handles
    li,                 \* 1-based position of the for loop over listings
    detail,             \* what the page calls after the last click find, None outside
                        \* the try block
    business_list,      \* BusinessList.business_list of the current query
    sources,            \* for each record of business_list the entry it came
                        \* from, <<query index, position in listings>>
    sink,               \* files written so far, one element per query saved
    output_dir,         \* whether the directory save_at exists
    error,              \* "none", else the call that raised out of main()
    failed,             \* positions in listings of the entries of this query
                        \* that the except clause dropped
    exit_status         \* <<>> while running, <<n>> once the process has ended

vars == <<pc, args, input_file, search_list, total, search_for_index,
          search_for, browser, panel, links_seen, previously_counted, count,
          branch, listings, li, detail, business_list, sources, sink,
          output_dir, error, failed, exit_status>>

----------------------------------------------------------------------------
(* Bounds of the model *)

MaxPanel == 2       \* largest number of place links the panel shows
MaxQueries == 2     \* largest number of lines in input.txt
MaxTotal == 2       \* largest -t argument
MaxNegTotal == 1   \* largest k of a negative -t argument -k
MaxPartLen == 2    \* longest prefix and rest of a formed URL
MaxUrlLen == 3     \* longest arbitrary URL text

----------------------------------------------------------------------------
(* Python values *)

None == <<>>
Some(v) == <<v>>
Val(o) == o[1]

\* Python truthiness of an optional int and of an optional str
TruthyInt(o) == o # None /\ Val(o) # 0
TruthyStr(o) == o # None /\ Val(o) # <<>>

Min(a, b) == IF a <= b THEN a ELSE b
Max(a, b) == IF a >= b THEN a ELSE b

----------------------------------------------------------------------------
(* str methods *)

\* the characters str.isspace() is true of: str.strip(), str.split(), int()
\* and float() all treat exactly these as blank
Whitespace ==
    { "\t", "\n", "U+000B", "\f", "\r", "U+001C", "U+001D", "U+001E",
      "U+001F", " ", "U+0085", "U+00A0", "U+1680", "U+2000", "U+2001",
      "U+2002", "U+2003", "U+2004", "U+2005", "U+2006", "U+2007", "U+2008",
      "U+2009", "U+200A", "U+2028", "U+2029", "U+202F", "U+205F", "U+3000" }

AsciiDigits == {"0", "1", "2", "3", "4", "5", "6", "7", "8", "9"}

\* the decimal digits outside ASCII (Unicode category Nd), one row for each
\* script, each row from its zero to its nine
DecimalDigitRows ==
    << <<"U+0660", "U+0661", "U+0662", "U+0663", "U+0664", "U+0665", "U+0666", "U+0667", "U+0668", "U+0669">>,
       <<"U+06F0", "U+06F1", "U+06F2", "U+06F3", "U+06F4", "U+06F5", "U+06F6", "U+06F7", "U+06F8", "U+06F9">>,
       <<"U+07C0", "U+07C1", "U+07C2", "U+07C3", "U+07C4", "U+07C5", "U+07C6", "U+07C7", "U+07C8", "U+07C9">>,
       <<"U+0966", "U+0967", "U+0968", "U+0969", "U+096A", "U+096B", "U+096C", "U+096D", "U+096E", "U+096F">>,
       <<"U+09E6", "U+09E7", "U+09E8", "U+09E9", "U+09EA", "U+09EB", "U+09EC", "U+09ED", "U+09EE", "U+09EF">>,
       <<"U+0A66", "U+0A67", "U+0A68", "U+0A69", "U+0A6A", "U+0A6B", "U+0A6C", "U+0A6D", "U+0A6E", "U+0A6F">>,
       <<"U+0AE6", "U+0AE7", "U+0AE8", "U+0AE9", "U+0AEA", "U+0AEB", "U+0AEC", "U+0AED", "U+0AEE", "U+0AEF">>,
       <<"U+0B66", "U+0B67", "U+0B68", "U+0B69", "U+0B6A", "U+0B6B", "U+0B6C", "U+0B6D", "U+0B6E", "U+0B6F">>,
       <<"U+0BE6", "U+0BE7", "U+0BE8", "U+0BE9", "U+0BEA", "U+0BEB", "U+0BEC", "U+0BED", "U+0BEE", "U+0BEF">>,
       <<"U+0C66", "U+0C67", "U+0C68", "U+0C69", "U+0C6A", "U+0C6B", "U+0C6C", "U+0C6D", "U+0C6E", "U+0C6F">>,
       <<"U+0CE6", "U+0CE7", "U+0CE8", "U+0CE9", "U+0CEA", "U+0CEB", "U+0CEC", "U+0CED", "U+0CEE", "U+0CEF">>,
       <<"U+0D66", "U+0D67", "U+0D68", "U+0D69", "U+0D6A", "U+0D6B", "U+0D6C", "U+0D6D", "U+0D6E", "U+0D6F">>,
       <<"U+0DE6", "U+0DE7", "U+0DE8", "U+0DE9", "U+0DEA", "U+0DEB", "U+0DEC", "U+0DED", "U+0DEE", "U+0DEF">>,
       <<"U+0E50", "U+0E51", "U+0E52", "U+0E53", "U+0E54", "U+0E55", "U+0E56", "U+0E57", "U+0E58", "U+0E59">>,
       <<"U+0ED0", "U+0ED1", "U+0ED2", "U+0ED3", "U+0ED4", "U+0ED5", "U+0ED6", "U+0ED7", "U+0ED8", "U+0ED9">>,
       <<"U+0F20", "U+0F21", "U+0F22", "U+0F23", "U+0F24", "U+0F25", "U+0F26", "U+0F27", "U+0F28", "U+0F29">>,
       <<"U+1040", "U+1041", "U+1042", "U+1043", "U+1044", "U+1045", "U+1046", "U+1047", "U+1048", "U+1049">>,
       <<"U+1090", "U+1091", "U+1092", "U+1093", "U+1094", "U+1095", "U+1096", "U+1097", "U+1098", "U+1099">>,
       <<"U+17E0", "U+17E1", "U+17E2", "U+17E3", "U+17E4", "U+17E5", "U+17E6", "U+17E7", "U+17E8", "U+17E9">>,
       <<"U+1810", "U+1811", "U+1812", "U+1813", "U+1814", "U+1815", "U+1816", "U+1817", "U+1818", "U+1819">>,
       <<"U+1946", "U+1947", "U+1948", "U+1949", "U+194A", "U+194B", "U+194C", "U+194D", "U+194E", "U+194F">>,
       <<"U+19D0", "U+19D1", "U+19D2", "U+19D3", "U+19D4", "U+19D5", "U+19D6", "U+19D7", "U+19D8", "U+19D9">>,
       <<"U+1A80", "U+1A81", "U+1A82", "U+1A83", "U+1A84", "U+1A85", "U+1A86", "U+1A87", "U+1A88", "U+1A89">>,
       <<"U+1A90", "U+1A91", "U+1A92", "U+1A93", "U+1A94", "U+1A95", "U+1A96", "U+1A97", "U+1A98", "U+1A99">>,
       <<"U+1B50", "U+1B51", "U+1B52", "U+1B53", "U+1B54", "U+1B55", "U+1B56", "U+1B57", "U+1B58", "U+1B59">>,
       <<"U+1BB0", "U+1BB1", "U+1BB2", "U+1BB3", "U+1BB4", "U+1BB5", "U+1BB6", "U+1BB7", "U+1BB8", "U+1BB9">>,
       <<"U+1C40", "U+1C41", "U+1C42", "U+1C43", "U+1C44", "U+1C45", "U+1C46", "U+1C47", "U+1C48", "U+1C49">>,
       <<"U+1C50", "U+1C51", "U+1C52", "U+1C53", "U+1C54", "U+1C55", "U+1C56", "U+1C57", "U+1C58", "U+1C59">>,
       <<"U+A620", "U+A621", "U+A622", "U+A623", "U+A624", "U+A625", "U+A626", "U+A627", "U+A628", "U+A629">>,
       <<"U+A8D0", "U+A8D1", "U+A8D2", "U+A8D3", "U+A8D4", "U+A8D5", "U+A8D6", "U+A8D7", "U+A8D8", "U+A8D9">>,
       <<"U+A900", "U+A901", "U+A902", "U+A903", "U+A904", "U+A905", "U+A906", "U+A907", "U+A908", "U+A909">>,
       <<"U+A9D0", "U+A9D1", "U+A9D2", "U+A9D3", "U+A9D4", "U+A9D5", "U+A9D6", "U+A9D7", "U+A9D8", "U+A9D9">>,
       <<"U+A9F0", "U+A9F1", "U+A9F2", "U+A9F3", "U+A9F4", "U+A9F5", "U+A9F6", "U+A9F7", "U+A9F8", "U+A9F9">>,
       <<"U+AA50", "U+AA51", "U+AA52", "U+AA53", "U+AA54", "U+AA55", "U+AA56", "U+AA57", "U+AA58", "U+AA59">>,
       <<"U+ABF0", "U+ABF1", "U+ABF2", "U+ABF3", "U+ABF4", "U+ABF5", "U+ABF6", "U+ABF7", "U+ABF8", "U+ABF9">>,
       <<"U+FF10", "U+FF11", "U+FF12", "U+FF13", "U+FF14", "U+FF15", "U+FF16", "U+FF17", "U+FF18", "U+FF19">>,
       <<"U+104A0", "U+104A1", "U+104A2", "U+104A3", "U+104A4", "U+104A5", "U+104A6", "U+104A7", "U+104A8", "U+104A9">>,
       <<"U+10D30", "U+10D31", "U+10D32", "U+10D33", "U+10D34", "U+10D35", "U+10D36", "U+10D37", "U+10D38", "U+10D39">>,
       <<"U+11066", "U+11067", "U+11068", "U+11069", "U+1106A", "U+1106B", "U+1106C", "U+1106D", "U+1106E", "U+1106F">>,
       <<"U+110F0", "U+110F1", "U+110F2", "U+110F3", "U+110F4", "U+110F5", "U+110F6", "U+110F7", "U+110F8", "U+110F9">>,
       <<"U+11136", "U+11137", "U+11138", "U+11139", "U+1113A", "U+1113B", "U+1113C", "U+1113D", "U+1113E", "U+1113F">>,
       <<"U+111D0", "U+111D1", "U+111D2", "U+111D3", "U+111D4", "U+111D5", "U+111D6", "U+111D7", "U+111D8", "U+111D9">>,
       <<"U+112F0", "U+112F1", "U+112F2", "U+112F3", "U+112F4", "U+112F5", "U+112F6", "U+112F7", "U+112F8", "U+112F9">>,
       <<"U+11450", "U+11451", "U+11452", "U+11453", "U+11454", "U+11455", "U+11456", "U+11457", "U+11458", "U+11459">>,
       <<"U+114D0", "U+114D1", "U+114D2", "U+114D3", "U+114D4", "U+114D5", "U+114D6", "U+114D7", "U+114D8", "U+114D9">>,
       <<"U+11650", "U+11651", "U+11652", "U+11653", "U+11654", "U+11655", "U+11656", "U+11657", "U+11658", "U+11659">>,
       <<"U+116C0", "U+116C1", "U+116C2", "U+116C3", "U+116C4", "U+116C5", "U+116C6", "U+116C7", "U+116C8", "U+116C9">>,
       <<"U+11730", "U+11731", "U+11732", "U+11733", "U+11734", "U+11735", "U+11736", "U+11737", "U+11738", "U+11739">>,
       <<"U+118E0", "U+118E1", "U+118E2", "U+118E3", "U+118E4", "U+118E5", "U+118E6", "U+118E7", "U+118E8", "U+118E9">>,
       <<"U+11950", "U+11951", "U+11952", "U+11953", "U+11954", "U+11955", "U+11956", "U+11957", "U+11958", "U+11959">>,
       <<"U+11C50", "U+11C51", "U+11C52", "U+11C53", "U+11C54", "U+11C55", "U+11C56", "U+11C57", "U+11C58", "U+11C59">>,
       <<"U+11D50", "U+11D51", "U+11D52", "U+11D53", "U+11D54", "U+11D55", "U+11D56", "U+11D57", "U+11D58", "U+11D59">>,
       <<"U+11DA0", "U+11DA1", "U+11DA2", "U+11DA3", "U+11DA4", "U+11DA5", "U+11DA6", "U+11DA7", "U+11DA8", "U+11DA9">>,
       <<"U+16A60", "U+16A61", "U+16A62", "U+16A63", "U+16A64", "U+16A65", "U+16A66", "U+16A67", "U+16A68", "U+16A69">>,
       <<"U+16AC0", "U+16AC1", "U+16AC2", "U+16AC3", "U+16AC4", "U+16AC5", "U+16AC6", "U+16AC7", "U+16AC8", "U+16AC9">>,
       <<"U+16B50", "U+16B51", "U+16B52", "U+16B53", "U+16B54", "U+16B55", "U+16B56", "U+16B57", "U+16B58", "U+16B59">>,
       <<"U+1D7CE", "U+1D7CF", "U+1D7D0", "U+1D7D1", "U+1D7D2", "U+1D7D3", "U+1D7D4", "U+1D7D5", "U+1D7D6", "U+1D7D7">>,
       <<"U+1D7D8", "U+1D7D9", "U+1D7DA", "U+1D7DB", "U+1D7DC", "U+1D7DD", "U+1D7DE", "U+1D7DF", "U+1D7E0", "U+1D7E1">>,
       <<"U+1D7E2", "U+1D7E3", "U+1D7E4", "U+1D7E5", "U+1D7E6", "U+1D7E7", "U+1D7E8", "U+1D7E9", "U+1D7EA", "U+1D7EB">>,
       <<"U+1D7EC", "U+1D7ED", "U+1D7EE", "U+1D7EF", "U+1D7F0", "U+1D7F1", "U+1D7F2", "U+1D7F3", "U+1D7F4", "U+1D7F5">>,
       <<"U+1D7F6", "U+1D7F7", "U+1D7F8", "U+1D7F9", "U+1D7FA", "U+1D7FB", "U+1D7FC", "U+1D7FD", "U+1D7FE", "U+1D7FF">>,
       <<"U+1E140", "U+1E141", "U+1E142", "U+1E143", "U+1E144", "U+1E145", "U+1E146", "U+1E147", "U+1E148", "U+1E149">>,
       <<"U+1E2F0", "U+1E2F1", "U+1E2F2", "U+1E2F3", "U+1E2F4", "U+1E2F5", "U+1E2F6", "U+1E2F7", "U+1E2F8", "U+1E2F9">>,
       <<"U+1E950", "U+1E951", "U+1E952", "U+1E953", "U+1E954", "U+1E955", "U+1E956", "U+1E957", "U+1E958", "U+1E959">>,
       <<"U+1FBF0", "U+1FBF1", "U+1FBF2", "U+1FBF3", "U+1FBF4", "U+1FBF5", "U+1FBF6", "U+1FBF7", "U+1FBF8", "U+1FBF9">> >>

UnicodeDigits ==
    { DecimalDigitRows[r][k] : r \in 1..Len(DecimalDigitRows), k \in 1..10 }

\* every character int() and float() read as a digit
Digits == AsciiDigits \cup UnicodeDigits

DigitVal(c) ==
    CASE c = "0" -> 0 [] c = "1" -> 1 [] c = "2" -> 2 [] c = "3" -> 3
      [] c = "4" -> 4 [] c = "5" -> 5 [] c = "6" -> 6 [] c = "7" -> 7
      [] c = "8" -> 8 [] c = "9" -> 9
      [] OTHER ->
           CHOOSE d \in 0..9 :
               \E r \in 1..Len(DecimalDigitRows) : DecimalDigitRows[r][d + 1] = c

\* s.startswith(sep) at position i
MatchAt(s, sep, i) ==
    /\ i + Len(sep) - 1 <= Len(s)
    /\ \A k \in 1..Len(sep) : s[i + k - 1] = sep[k]

\* s.find(sep): the first position where sep occurs, 0 when there is none
Find(s, sep) ==
    IF \E i \in 1..Len(s) : MatchAt(s, sep, i)
    THEN CHOOSE i \in 1..Len(s) :
            /\ MatchAt(s, sep, i)
            /\ \A j \in 1..(i - 1) : ~MatchAt(s, sep, j)
    ELSE 0

RECURSIVE Split(_, _)

\* s cut at i, the first position where sep occurs, 0 when there is none
SplitAt(s, sep, i) ==
    IF i = 0 THEN <<s>>
    ELSE <<SubSeq(s, 1, i - 1)>> \o Split(SubSeq(s, i + Len(sep), Len(s)), sep)

\* s.split(sep) for a non-empty separator
Split(s, sep) == SplitAt(s, sep, Find(s, sep))

\* s.strip()
RECURSIVE LStrip(_)
LStrip(s) == IF s # <<>> /\ Head(s) \in Whitespace THEN LStrip(Tail(s)) ELSE s

RECURSIVE RStrip(_)
RStrip(s) ==
    IF s # <<>> /\ s[Len(s)] \in Whitespace
    THEN RStrip(SubSeq(s, 1, Len(s) - 1)) ELSE s

Strip(s) == RStrip(LStrip(s))

\* s.replace(old, new) for one-character old and new
Replace(s, old, new) == [i \in 1..Len(s) |-> IF s[i] = old THEN new ELSE s[i]]

\* s.replace(old, '') for a one-character old
RECURSIVE Remove(_, _)
Remove(s, old) ==
    IF s = <<>> THEN <<>>
    ELSE IF Head(s) = old THEN Remove(Tail(s), old)
    ELSE <<Head(s)>> \o Remove(Tail(s), old)

RECURSIVE Tokens(_)

\* the position of the first blank of t, Len(t) + 1 when it has none
FirstBlank(t) ==
    IF \A i \in 1..Len(t) : t[i] \notin Whitespace THEN Len(t) + 1
    ELSE CHOOSE i \in 1..Len(t) :
            /\ t[i] \in Whitespace
            /\ \A j \in 1..(i - 1) : t[j] \notin Whitespace

\* the token of t that ends before position n, then the tokens of the rest
TokensFrom(t, n) == <<SubSeq(t, 1, n - 1)>> \o Tokens(SubSeq(t, n, Len(t)))

\* the tokens of a text that starts with no blank
TokensOf(t) == IF t = <<>> THEN <<>> ELSE TokensFrom(t, FirstBlank(t))

\* s.split(): the whitespace-delimited tokens
Tokens(s) == TokensOf(LStrip(s))

\* a slice that takes a negative bound as zero
PySliceClamped(s, n) == SubSeq(s, 1, Min(Max(n, 0), Len(s)))

\* s[:n], Python slice of a list with an integer bound
PySlice(s, n) ==
    IF n >= 0 THEN SubSeq(s, 1, Min(n, Len(s)))
    ELSE SubSeq(s, 1, Max(Len(s) + n, 0))

----------------------------------------------------------------------------
(* int() and float() on text *)

AllDigits(s) == s # <<>> /\ \A i \in 1..Len(s) : s[i] \in Digits

RECURSIVE DigitsVal(_)
DigitsVal(s) ==
    IF s = <<>> THEN 0
    ELSE 10 * DigitsVal(SubSeq(s, 1, Len(s) - 1)) + DigitVal(s[Len(s)])

Unsigned(s) == IF s # <<>> /\ Head(s) \in {"-", "+"} THEN Tail(s) ELSE s
Sign(s) == IF s # <<>> /\ Head(s) = "-" THEN -1 ELSE 1

\* the digit grouping of int() and float(): every '_' stands between two
\* digits
UnderscoresOK(s) ==
    \A i \in 1..Len(s) :
        s[i] = "_" =>
            /\ i > 1 /\ s[i - 1] \in Digits
            /\ i < Len(s) /\ s[i + 1] \in Digits

\* the blanks int() and float() skip around a number: those of str.strip()
\* but for the four separators U+001C..U+001F
NumberBlanks == Whitespace \ {"U+001C", "U+001D", "U+001E", "U+001F"}

RECURSIVE NumLStrip(_)
NumLStrip(s) ==
    IF s # <<>> /\ Head(s) \in NumberBlanks THEN NumLStrip(Tail(s)) ELSE s

RECURSIVE NumRStrip(_)
NumRStrip(s) ==
    IF s # <<>> /\ s[Len(s)] \in NumberBlanks
    THEN NumRStrip(SubSeq(s, 1, Len(s) - 1)) ELSE s

NumStrip(s) == NumRStrip(NumLStrip(s))

\* the int of a stripped text t that had the given sign
IntOf(sign, t) ==
    IF UnderscoresOK(t) /\ AllDigits(Remove(t, "_"))
    THEN Some(sign * DigitsVal(Remove(t, "_")))
    ELSE None

\* int(s): Some(value), or None where Python raises ValueError
ParseInt(s) == IntOf(Sign(NumStrip(s)), Unsigned(NumStrip(s)))

\* float values: a finite one is mant / 10^exp, a subnormal one below
\* 1e-314 is mant / 2^1074, the two zeros differ by their sign
Finite(m, e) == [kind |-> "finite", mant |-> m, exp |-> e]
Subnormal(k) == [kind |-> "subnormal", mant |-> k, exp |-> 1074]
NegZero == [kind |-> "negzero", mant |-> 0, exp |-> 0]
Zero(sign) == IF sign < 0 THEN NegZero ELSE Finite(0, 0)
Inf(sign) == [kind |-> "inf", mant |-> sign, exp |-> 0]
NaN == [kind |-> "nan", mant |-> 0, exp |-> 0]

\* the number of decimal digits of a positive integer
RECURSIVE NumDigits(_)
NumDigits(n) == IF n < 10 THEN 1 ELSE 1 + NumDigits(n \div 10)

RECURSIVE Pow10(_)
Pow10(k) == IF k = 0 THEN 1 ELSE 10 * Pow10(k - 1)

\* the first nine digits of sys.float_info.max, 1.7976931348623157e308
FloatMaxExp == 308
FloatMaxLead == 179769313
\* from this leading exponent down a double keeps fewer than nine digits:
\* it is a multiple of 2^-1074, about 4.94e-324
FloatTinyExp == -315

\* 2^1074 in base 10^4, the highest limb first
TwoPow1074 ==
    << 2024, 225, 3307, 3106, 1835, 2495, 3467, 1891, 7307, 495, 5664, 9764,
       1421, 1835, 6901, 3580, 2743, 339, 5679, 9534, 6891, 9603, 8370, 1437,
       1244, 9518, 7077, 8643, 1681, 1911, 3898, 873, 7385, 7934, 7686, 7013,
       3999, 4073, 8509, 9215, 1742, 4276, 5663, 6136, 4466, 9077, 4209, 3216,
       3412, 3976, 7678, 4727, 4506, 8562, 74, 8342, 4692, 6986, 1810, 3355,
       6491, 5955, 6340, 8100, 5651, 2358, 7695, 5233, 3414, 6152, 3050, 2532,
       1863, 2750, 8646, 62, 6330, 7707, 7410, 9349, 4784 >>

\* the limbs of a natural number, none for zero
RECURSIVE LimbsOf(_)
LimbsOf(n) ==
    IF n = 0 THEN <<>> ELSE Append(LimbsOf(n \div 10000), n % 10000)

\* the natural number of a sequence of decimal digits
RECURSIVE NatOf(_)
NatOf(D) ==
    IF D = <<>> THEN 0
    ELSE 10 * NatOf(SubSeq(D, 1, Len(D) - 1)) + D[Len(D)]

\* the carry and the limb of a sum t
CarryLimb(t) == <<t \div 10000, t % 10000>>

\* the limbs of a number given as its carry followed by its limbs
WithCarry(R) == LimbsOf(R[1]) \o Tail(R)

\* X with zero limbs in front up to n limbs
PadTo(X, n) ==
    IF Len(X) >= n THEN X ELSE [i \in 1..(n - Len(X)) |-> 0] \o X

RECURSIVE MulCarry(_, _, _)

\* the limbs of D above the h-th times a, after the lower ones gave low
MulHigh(D, a, h, low) == MulCarry(SubSeq(D, 1, h), a, low[1]) \o Tail(low)

\* D * a + c for a below 10^5 as the carry out of the highest limb followed
\* by Len(D) limbs, the lower half of D multiplied before the higher one
MulCarry(D, a, c) ==
    IF c = 0 /\ a = 0 THEN [i \in 1..(Len(D) + 1) |-> 0]
    ELSE IF D = <<>> THEN <<c>>
    ELSE IF Len(D) = 1 THEN CarryLimb(D[1] * a + c)
    ELSE MulHigh(D, a, Len(D) \div 2,
                 MulCarry(SubSeq(D, (Len(D) \div 2) + 1, Len(D)), a, c))

\* the limbs of D * a + c for a below 10^5
MulSmall(D, a, c) == WithCarry(MulCarry(D, a, c))

RECURSIVE AddCarry(_, _, _)

\* the limbs of A and B above the h-th added, after the lower ones gave low
AddHigh(A, B, h, low) ==
    AddCarry(SubSeq(A, 1, h), SubSeq(B, 1, h), low[1]) \o Tail(low)

\* A + B + c for A and B of one length, as the carry out of the highest
\* limb followed by Len(A) limbs
AddCarry(A, B, c) ==
    IF c = 0 /\ B = [i \in 1..Len(A) |-> 0] THEN <<0>> \o A
    ELSE IF A = <<>> THEN <<c>>
    ELSE IF Len(A) = 1 THEN CarryLimb(A[1] + B[1] + c)
    ELSE AddHigh(A, B, Len(A) \div 2,
                 AddCarry(SubSeq(A, (Len(A) \div 2) + 1, Len(A)),
                          SubSeq(B, (Len(B) \div 2) + 1, Len(B)), c))

\* the limbs of A + B + c
AddBig(A, B, c) ==
    WithCarry(AddCarry(PadTo(A, Max(Len(A), Len(B))),
                       PadTo(B, Max(Len(A), Len(B))), c))

\* the limbs of D * m for m below 10^9
MulBig(D, m) ==
    AddBig(MulSmall(D, m \div 10000, 0) \o <<0>>,
           MulSmall(D, m % 10000, 0), 0)

\* the decimal digits of a sequence of limbs, four for each limb
DecimalDigits(L) ==
    [i \in 1..(4 * Len(L)) |->
        (L[((i - 1) \div 4) + 1] \div Pow10(3 - ((i - 1) % 4))) % 10]

\* the quotient q rounded by the digits r of the remainder: up when they
\* are above one half, to the even neighbour when they are one half
HalfEven(q, r) ==
    IF \/ r[1] > 5
       \/ /\ r[1] = 5
          /\ \/ \E i \in 2..Len(r) : r[i] # 0
             \/ q % 2 = 1
    THEN q + 1 ELSE q

\* the number of digits D over 10^e, rounded, for Len(D) > e > 0
RoundedQuotient(D, e) ==
    HalfEven(NatOf(SubSeq(D, 1, Len(D) - e)),
             SubSeq(D, Len(D) - e + 1, Len(D)))

\* the multiple of 2^-1074 nearest to a / 10^e, a tie going to the even
\* one, for a positive a below 10^9 and e > 0
SubnormalUnits(a, e) ==
    RoundedQuotient(PadTo(DecimalDigits(MulBig(TwoPow1074, a)), e + 1), e)

\* k units of 2^-1074 with a sign
SubnormalOf(sign, k) == IF k = 0 THEN Zero(sign) ELSE Subnormal(sign * k)

Abs(m) == IF m < 0 THEN -m ELSE m
SignOf(m) == IF m < 0 THEN -1 ELSE 1

\* the float nearest to sign * a / 10^e for a positive a of d digits that
\* is no multiple of 10: a value above the largest double is inf, one below
\* 1e-314 is rounded to a multiple of 2^-1074, to zero when it is nearer
Nearest(sign, a, e, d) ==
    IF \/ d - 1 - e > FloatMaxExp
       \/ d - 1 - e = FloatMaxExp /\ a * Pow10(9 - d) > FloatMaxLead
    THEN Inf(sign)
    ELSE IF d - 1 - e < FloatTinyExp - 10 THEN Zero(sign)
    ELSE IF d - 1 - e <= FloatTinyExp
    THEN SubnormalOf(sign, SubnormalUnits(a, e))
    ELSE Finite(sign * a, e)

\* m / 10^e as a float: m gets no factor 10 (zero is 0 / 10^0).  m has at
\* most nine digits.
RECURSIVE Normalize(_, _)
Normalize(m, e) ==
    IF m = 0 THEN Finite(0, 0)
    ELSE IF m % 10 = 0 THEN Normalize(m \div 10, e - 1)
    ELSE Nearest(SignOf(m), Abs(m), e, NumDigits(Abs(m)))

\* str.lower() of the letters float() looks at
Lower(c) ==
    CASE c = "A" -> "a" [] c = "E" -> "e" [] c = "F" -> "f" [] c = "I" -> "i"
      [] c = "N" -> "n" [] c = "T" -> "t" [] c = "Y" -> "y" [] OTHER -> c

\* the float of a mantissa over 10^e, zero keeping the sign of the text
FloatOf(sign, mant, e) ==
    IF mant = 0 THEN Zero(sign) ELSE Normalize(sign * mant, e)

\* the float of the digits ip before the point, fp after it, and the
\* exponent text ex
FloatOfDigits(sign, ip, fp, ex) ==
    IF /\ ip \o fp # <<>>
       /\ \A i \in 1..Len(ip) : ip[i] \in Digits
       /\ \A i \in 1..Len(fp) : fp[i] \in Digits
       /\ AllDigits(Unsigned(ex))
    THEN Some(FloatOf(sign, DigitsVal(ip \o fp),
                      Len(fp) - Sign(ex) * DigitsVal(Unsigned(ex))))
    ELSE None

\* the float of the text before the exponent cut at its points
FloatOfParts(sign, parts, ex) ==
    IF Len(parts) > 2 THEN None
    ELSE FloatOfDigits(sign, parts[1],
                       IF Len(parts) = 2 THEN parts[2] ELSE <<>>, ex)

\* the float of a text cut at its letters e
FloatOfHalves(sign, halves) ==
    IF Len(halves) > 2 THEN None
    ELSE FloatOfParts(sign, Split(halves[1], <<".">>),
                      IF Len(halves) = 2 THEN halves[2] ELSE <<"0">>)

\* the float of a stripped text t without its sign, low its lower case
FloatOfText(sign, t, low) ==
    IF low \in {<<"i", "n", "f">>,
                <<"i", "n", "f", "i", "n", "i", "t", "y">>}
    THEN Some(Inf(sign))
    ELSE IF low = <<"n", "a", "n">> THEN Some(NaN)
    ELSE IF UnderscoresOK(t)
    THEN FloatOfHalves(sign, Split(Remove(low, "_"), <<"e">>))
    ELSE None

\* the float of a stripped text t without its sign
FloatOfStripped(sign, t) ==
    FloatOfText(sign, t, [i \in 1..Len(t) |-> Lower(t[i])])

\* float(s): Some(value), or None where Python raises ValueError.  The text
\* is blank-stripped; after an optional sign it is inf, infinity or nan in
\* any case, or digits with an optional point and an optional exponent.
ParseFloat(s) == FloatOfStripped(Sign(NumStrip(s)), Unsigned(NumStrip(s)))

----------------------------------------------------------------------------
(* extract_coordinates_from_url *)

\* seq[-1]
Last(seq) == seq[Len(seq)]

\* url.split('/@')[-1].split('/')[0]
CoordinateSegment(url) == Split(Last(Split(url, <<"/", "@">>)), <<"/">>)[1]

\* the pair of two floats, None where float() raised for one of them
FloatPair(lat, lng) ==
    IF lat = None \/ lng = None THEN None ELSE Some(<<Val(lat), Val(lng)>>)

\* line 64 on coordinates.split(','): IndexError from [1] when there is
\* one token only
CoordinatesOf(tokens) ==
    IF Len(tokens) < 2 THEN None
    ELSE FloatPair(ParseFloat(tokens[1]), ParseFloat(tokens[2]))

\* Some(<<latitude, longitude>>), or None where the function raises
\* (ValueError from float(), IndexError from [1])
extract_coordinates_from_url(url) ==
    CoordinatesOf(Split(CoordinateSegment(url), <<",">>))

----------------------------------------------------------------------------
(* The page: what the browser shows.  These are the inputs of the model.   *)

T(c) == <<c>>

\* page.url after a click: ".../@1.5,-2,3z/d", no marker, one token only,
\* a longitude that is not a number
GoodUrl == <<"m", "/", "@", "1", ".", "5", ",", "-", "2", ",", "3", "z", "/", "d">>
NoMarkerUrl == <<"m", "/", "p">>
OneTokenUrl == <<"m", "/", "@", "1", ".", "5">>
BadLngUrl == <<"m", "/", "@", "1", ",", "z", "/", "d">>

\* A detail view: what each page call of lines 135-145 finds at the moment
\* it is made, for the page goes on rendering between two calls and every
\* call waits for its element.  For a region the text the call returns,
\* None when no element matches until the call times out; label_found
\* tells whether the clicked handle still resolves to an element when line
\* 135 reads it, label is its aria-label, None when it has none;
\* reviews_seen and rating_seen are the count() > 0 tests that come before
\* the two reads of lines 139 and 140.
FullView ==
    [label_found |-> TRUE, label |-> Some(T("n")),
     address |-> Some(T("a")), website |-> Some(T("w")),
     phone |-> Some(T("p")),
     reviews_seen |-> TRUE,
     reviews |-> Some(<<"1", ",", "2", "0", " ", "r">>),
     rating_seen |-> TRUE,
     rating |-> Some(<<"4", ",", "5", " ", "s">>), url |-> GoodUrl]

DetailViews ==
    { FullView,
      \* every optional piece missing but the three text regions present and empty
      [FullView EXCEPT !.label = None, !.address = Some(<<>>),
                       !.website = Some(<<>>), !.phone = Some(<<>>),
                       !.reviews_seen = FALSE, !.reviews = None,
                       !.rating_seen = FALSE, !.rating = None],
      \* the clicked handle gone from the panel when its label is read
      [FullView EXCEPT !.label_found = FALSE, !.label = None],
      \* an element counted and gone when it is read
      [FullView EXCEPT !.reviews = None],
      [FullView EXCEPT !.rating = None],
      [FullView EXCEPT !.address = None],
      [FullView EXCEPT !.website = None],
      [FullView EXCEPT !.phone = None],
      [FullView EXCEPT !.reviews = Some(T("r"))],
      [FullView EXCEPT !.url = NoMarkerUrl],
      [FullView EXCEPT !.url = OneTokenUrl],
      [FullView EXCEPT !.url = BadLngUrl] }

\* Values of -s
SearchArgs == { None, Some(<<"a", " ", "b">>) }

\* Values of -t: none, zero, the smallest and the largest cap, a negative one
TotalArgs == { None, Some(0), Some(1), Some(MaxTotal), Some(-MaxNegTotal) }

\* Line i of input.txt as readlines() returns it
Line(i) == IF i % 2 = 1 THEN <<"a", "\n">> ELSE <<" ", "a", " ", "b", "\n">>

\* file.readlines() of each possible input.txt, or None when it is missing
InputFiles ==
    { None } \cup { Some([i \in 1..n |-> Line(i)]) : n \in 0..MaxQueries }

----------------------------------------------------------------------------
(* Playwright locators *)

\* locator.all() on the place links: one handle per link now in the panel
AllLinks(n) == [i \in 1..n |-> [kind |-> "link", idx |-> i]]

\* listing.locator("xpath=..")
Parent(listing) == [listing EXCEPT !.kind = "parent"]

\* locator.text_content(): the text of the one matching element; the call
\* times out and raises when no element matches.  None stands for the raise.
TextContent(region) == region

\* locator.get_attribute(name): the value of the attribute, None when the
\* element has none; the call times out and raises when no element
\* matches.  On the rating image (line 140) None stands for both, as
\* .split() of None raises; on the clicked handle (line 135) label_found
\* tells the two apart.
GetAttribute(region) == region

\* x or ""
OrEmpty(o) == IF TruthyStr(o) THEN Val(o) ELSE <<>>

----------------------------------------------------------------------------
(* Business, BusinessList *)

DefaultTotal == 1000000

\* a list shared by every BusinessList (business_list: list = [] as a class
\* attribute): the new batch is the old one
SharedBusinessList == business_list

\* BusinessList(): business_list from default_factory=list
NewBusinessList == <<>>

\* the value a parser gave, None where it raised
Parsed(x) == IF x = None THEN None ELSE Some(x)

\* int(<text>.split()[0].replace(',', '')) on the tokens of the text:
\* IndexError from [0] when there is none
CountOf(toks) ==
    IF toks = <<>> THEN None ELSE Parsed(ParseInt(Remove(toks[1], ",")))

\* float(<text>.split()[0].replace(',', '.')) on the tokens of the text
AverageOf(toks) ==
    IF toks = <<>> THEN None
    ELSE Parsed(ParseFloat(Replace(toks[1], ",", ".")))

\* a count that is zero when the control is missing
ReviewsCountZero(v) ==
    IF ~v.reviews_seen THEN Some(Some(0))
    ELSE IF TextContent(v.reviews) = None THEN None
    ELSE CountOf(Tokens(Val(TextContent(v.reviews))))

\* reviews_count of line 139: Some(optional int), None when it raises
ReviewsCount(v) ==
    IF ~v.reviews_seen THEN Some(None)
    ELSE IF TextContent(v.reviews) = None THEN None
    ELSE CountOf(Tokens(Val(TextContent(v.reviews))))

\* reviews_average of line 140: Some(optional float), None when it raises
ReviewsAverage(v) ==
    IF ~v.rating_seen THEN Some(None)
    ELSE IF GetAttribute(v.rating) = None THEN None
    ELSE AverageOf(Tokens(Val(GetAttribute(v.rating))))

\* Business(...) of lines 134-143: Some(record), None when an argument
\* raises; get_attribute of line 135 raises when the handle resolves to no
\* element until the call times out
NewBusiness(v) ==
    IF \/ ~v.label_found
       \/ TextContent(v.address) = None
       \/ TextContent(v.website) = None
       \/ TextContent(v.phone) = None
       \/ ReviewsCount(v) = None
       \/ ReviewsAverage(v) = None
    THEN None
    ELSE Some([name |-> OrEmpty(GetAttribute(v.label)),
               address |-> OrEmpty(TextContent(v.address)),
               website |-> OrEmpty(TextContent(v.website)),
               phone_number |-> OrEmpty(TextContent(v.phone)),
               reviews_count |-> Val(ReviewsCount(v)),
               reviews_average |-> Val(ReviewsAverage(v)),
               latitude |-> None,
               longitude |-> None])

\* an assignment that stores the latitude only
SetLatitudeOnly(business, pair) ==
    [business EXCEPT !.latitude = Some(pair[1])]

\* business.latitude, business.longitude = <pair>
SetCoordinates(business, pair) ==
    [business EXCEPT !.latitude = Some(pair[1]), !.longitude = Some(pair[2])]

\* line 145 on the record b and the pair c, each None where making it raised
Located(b, c) ==
    IF b = None \/ c = None THEN None
    ELSE Some(SetCoordinates(Val(b), Val(c)))

\* the try body after the click, lines 134-146: Some(record to append),
\* None when anything in it raises
ScrapeListing(v) ==
    Located(NewBusiness(v), extract_coordinates_from_url(v.url))

\* a handler that ends the loop at the first listing that raises
AfterExceptBreak(i) == Len(listings) + 1

\* the for loop over listings after the except clause ran: next entry
AfterExcept(i) == i + 1

\* BusinessList.dataframe(): one row per Business, in list order
dataframe(bl) == [i \in 1..Len(bl) |-> bl[i]]

\* f"google_maps_data_{search_for.replace(' ', '_')}"
FileName(q) == <<"google_maps_data_">> \o Replace(q, " ", "_")

----------------------------------------------------------------------------
(* main() *)

Init ==
    /\ pc = "start"
    /\ args \in [search : SearchArgs, total : TotalArgs]
    /\ input_file \in InputFiles
    /\ search_list = <<>>
    /\ total = 0
    /\ search_for_index = 0
    /\ search_for = <<>>
    /\ browser = "closed"
    /\ panel = 0
    /\ links_seen = FALSE
    /\ previously_counted = 0
    /\ count = 0
    /\ branch = "none"
    /\ listings = <<>>
    /\ li = 0
    /\ detail = None
    /\ business_list = <<>>
    /\ sources = <<>>
    /\ sink = <<>>
    /\ output_dir = FALSE
    /\ error = "none"
    /\ failed = {}
    /\ exit_status = None

\* a default that applies only when -t is not given
TotalOfGiven(a) == IF a.total # None THEN Val(a.total) ELSE DefaultTotal

\* total = args.total if args.total else 1_000_000
TotalOf(a) == IF TruthyInt(a.total) THEN Val(a.total) ELSE DefaultTotal

\* search_list after lines 73-81
SearchListOf(a, f) ==
    IF TruthyStr(a.search) THEN <<Val(a.search)>>
    ELSE IF f # None THEN Val(f)
    ELSE <<>>

\* sys.exit() of line 85
SysExitStatus == 0

\* lines 73-85: read the arguments and input.txt; exit when there is no query
ReadInput ==
    /\ pc = "start"
    /\ search_list' = SearchListOf(args, input_file)
    /\ total' = TotalOf(args)
    /\ IF Len(search_list') = 0
       THEN /\ pc' = "exited"
            /\ error' = "no_search"
            /\ exit_status' = Some(SysExitStatus)
       ELSE /\ pc' = "launch"
            /\ UNCHANGED <<error, exit_status, detail>>
    /\ UNCHANGED <<args, input_file, search_for_index, search_for, browser,
                   panel, links_seen, previously_counted, count, branch,
                   listings, li, business_list, sink, output_dir,
                   failed, detail,
                   sources>>

\* lines 88-93: launch the browser and open the maps page
Launch ==
    /\ pc = "launch"
    /\ browser' = "open"
    /\ search_for_index' = 1
    /\ pc' = "for_search"
    /\ UNCHANGED <<args, input_file, search_list, total, search_for, panel,
                   links_seen, previously_counted, count, branch, listings, li,
                   business_list, sink, output_dir, error, failed,
                   exit_status, detail,
                   sources>>

\* lines 95-97: next query of the for loop, stripped
NextSearch ==
    /\ pc = "for_search"
    /\ search_for_index <= Len(search_list)
    /\ search_for' = Strip(search_list[search_for_index])
    /\ pc' = "fill"
    /\ UNCHANGED <<args, input_file, search_list, total, search_for_index,
                   browser, panel, links_seen, previously_counted, count,
                   branch, listings, li, business_list, sink,
                   output_dir, error, failed, exit_status, detail,
                   sources>>

\* line 154 and the normal end of main()
CloseBrowser ==
    /\ pc = "for_search"
    /\ search_for_index > Len(search_list)
    /\ browser' = "closed"
    /\ pc' = "done"
    /\ exit_status' = Some(0)
    /\ UNCHANGED <<args, input_file, search_list, total, search_for_index,
                   search_for, panel, links_seen, previously_counted, count,
                   branch, listings, li, business_list, sink,
                   output_dir, error, failed, detail,
                   sources>>

\* lines 99-100: type the query into the search box
Fill ==
    /\ pc = "fill"
    /\ pc' = "press"
    /\ UNCHANGED <<args, input_file, search_list, total, search_for_index,
                   search_for, browser, panel, links_seen, previously_counted,
                   count, branch, listings, li, business_list,
                   sink, output_dir, error, failed, exit_status, detail,
                   sources>>

\* lines 102-103: press Enter; the panel now shows this query's results
PressEnter ==
    /\ pc = "press"
    /\ \E n \in 0..MaxPanel :
          /\ panel' = n
          /\ links_seen' = (n > 0)
    /\ pc' = "hover"
    /\ UNCHANGED <<args, input_file, search_list, total, search_for_index,
                   search_for, browser, previously_counted, count, branch,
                   listings, li, business_list, sink, output_dir,
                   error, failed, exit_status, detail,
                   sources>>

\* an exception that leaves main(): the with block closes the browser and
\* the interpreter ends with status 1
Raise(site) ==
    /\ pc' = "crashed"
    /\ error' = site
    /\ browser' = "closed"
    /\ exit_status' = Some(1)

\* line 105: hover over the first place link; page.hover waits for a
\* matching element and raises TimeoutError when there is none
Hover ==
    /\ pc = "hover"
    /\ IF panel = 0
       THEN /\ Raise("hover_timeout")
            /\ UNCHANGED previously_counted
       ELSE /\ pc' = "scroll"
            /\ previously_counted' = 0
            /\ UNCHANGED <<error, browser, exit_status, detail>>
    /\ UNCHANGED <<args, input_file, search_list, total, search_for_index,
                   search_for, panel, links_seen, count, branch, listings, li,
                   business_list, sink, output_dir, failed, detail,
                   sources>>

\* lines 109-110: wheel down and wait
Scroll ==
    /\ pc = "scroll"
    /\ pc' = "count"
    /\ UNCHANGED <<args, input_file, search_list, total, search_for_index,
                   search_for, browser, panel, links_seen, previously_counted,
                   count, branch, listings, li, business_list,
                   sink, output_dir, error, failed, exit_status, detail,
                   sources>>

\* a loop that counts again without scrolling
CountWithoutScroll ==
    /\ pc = "count"
    /\ count' = panel
    /\ IF count' >= total
       THEN /\ pc' = "enum_target"
            /\ UNCHANGED previously_counted
       ELSE IF count' = previously_counted
       THEN /\ pc' = "enum_all"
            /\ UNCHANGED previously_counted
       ELSE /\ pc' = "count"
            /\ previously_counted' = count'
    /\ UNCHANGED <<args, input_file, search_list, total, search_for_index,
                   search_for, browser, panel, links_seen, branch, listings,
                   li, business_list, sink, output_dir, error,
                   failed, exit_status, detail,
                   sources>>

\* a loop without the no-growth test of line 118
CountWithoutNoGrowth ==
    /\ pc = "count"
    /\ count' = panel
    /\ IF count' >= total
       THEN /\ pc' = "enum_target"
            /\ UNCHANGED previously_counted
       ELSE /\ pc' = "scroll"
            /\ previously_counted' = count'
    /\ UNCHANGED <<args, input_file, search_list, total, search_for_index,
                   search_for, browser, panel, links_seen, branch, listings,
                   li, business_list, sink, output_dir, error,
                   failed, exit_status, detail,
                   sources>>

\* lines 112-113, 118, 122-124: count the place links and pick the branch
Count ==
    /\ pc = "count"
    /\ count' = panel
    /\ IF count' >= total
       THEN /\ pc' = "enum_target"
            /\ UNCHANGED previously_counted
       ELSE IF count' = previously_counted
       THEN /\ pc' = "enum_all"
            /\ UNCHANGED previously_counted
       ELSE /\ pc' = "scroll"
            /\ previously_counted' = count'
    /\ UNCHANGED <<args, input_file, search_list, total, search_for_index,
                   search_for, browser, panel, links_seen, branch, listings,
                   li, business_list, sink, output_dir, error,
                   failed, exit_status, detail,
                   sources>>

\* a truncation that keeps the links themselves
TargetLinks(n, t) == PySlice(AllLinks(n), t)

\* lines 114-115: all()[:total], each resolved to its parent
TargetListings(n, t) ==
    LET cut == PySlice(AllLinks(n), t)
    IN  [i \in 1..Len(cut) |-> Parent(cut[i])]

\* an enumeration that yields the links last first
ReversedListings(n) == [i \in 1..n |-> [kind |-> "link", idx |-> n + 1 - i]]

\* line 119: all()
NoGrowthListings(n) == AllLinks(n)

\* lines 114-117: enumerate the links now in the panel, truncated
EnumTarget ==
    /\ pc = "enum_target"
    /\ listings' = TargetListings(panel, total)
    /\ branch' = "target"
    /\ pc' = "new_batch"
    /\ panel' = 0
    /\ UNCHANGED <<args, input_file, search_list, total, search_for_index,
                   search_for, browser, links_seen, previously_counted,
                   count, li, business_list, sink, output_dir,
                   error, failed, exit_status, detail,
                   sources>>

\* lines 119-121: enumerate the links now in the panel
EnumAll ==
    /\ pc = "enum_all"
    /\ listings' = NoGrowthListings(panel)
    /\ branch' = "nogrowth"
    /\ pc' = "new_batch"
    /\ panel' = 0
    /\ UNCHANGED <<args, input_file, search_list, total, search_for_index,
                   search_for, browser, links_seen, previously_counted,
                   count, li, business_list, sink, output_dir,
                   error, failed, exit_status, detail,
                   sources>>

\* the page changes on its own while main() waits or between two calls:
\* results load late, or the panel is rendered again
PanelChange ==
    /\ pc \in {"hover", "scroll", "count", "enum_target", "enum_all"}
    /\ \E n \in 0..MaxPanel :
          /\ n # panel
          /\ panel' = n
          /\ links_seen' = (links_seen \/ n > 0)
    /\ UNCHANGED <<pc, args, input_file, search_list, total, search_for_index,
                   search_for, browser, previously_counted, count, branch,
                   listings, li, business_list, sources, sink, output_dir,
                   error, failed, exit_status, detail>>

\* line 126: a new, empty BusinessList for this query
NewBatch ==
    /\ pc = "new_batch"
    /\ business_list' = NewBusinessList
    /\ sources' = <<>>
    /\ failed' = {}
    /\ li' = 1
    /\ pc' = "for_listing"
    /\ UNCHANGED <<args, input_file, search_list, total, search_for_index,
                   search_for, browser, panel, links_seen, previously_counted,
                   count, branch, listings, sink, output_dir, error,
                   exit_status, detail>>

\* lines 131-132: click the listing; a click that raises is caught by the
\* except clause of line 147 and the loop goes on.  detail is what the page
\* calls of lines 135-145 are going to find on the page the click loads.
Click ==
    /\ pc = "for_listing"
    /\ li <= Len(listings)
    /\ \/ /\ pc' = "scrape"
          /\ \E v \in DetailViews : detail' = Some(v)
          /\ UNCHANGED <<li, failed>>
       \/ /\ failed' = failed \cup {li}
          /\ li' = AfterExcept(li)
          /\ pc' = "for_listing"
          /\ UNCHANGED detail
    /\ UNCHANGED <<args, input_file, search_list, total, search_for_index,
                   search_for, browser, panel, links_seen, previously_counted,
                   count, branch, listings, business_list, sink, output_dir,
                   error, exit_status,
                   sources>>

\* lines 134-148: build the Business from what the page calls find, parse
\* the coordinates and append; anything that raises drops the listing
Scrape ==
    /\ pc = "scrape"
    /\ \E r \in {ScrapeListing(Val(detail))} :
           IF r = None
           THEN /\ failed' = failed \cup {li}
                /\ li' = AfterExcept(li)
                /\ UNCHANGED <<business_list, sources>>
           ELSE /\ business_list' = Append(business_list, Val(r))
                /\ sources' = Append(sources, <<search_for_index, li>>)
                /\ li' = li + 1
                /\ UNCHANGED failed
    /\ detail' = None
    /\ pc' = "for_listing"
    /\ UNCHANGED <<args, input_file, search_list, total, search_for_index,
                   search_for, browser, panel, links_seen, previously_counted,
                   count, branch, listings, sink, output_dir, error,
                   exit_status>>

\* the for loop of line 129 has no listing left
EndListings ==
    /\ pc = "for_listing"
    /\ li > Len(listings)
    /\ pc' = "save_excel"
    /\ UNCHANGED <<args, input_file, search_list, total, search_for_index,
                   search_for, browser, panel, links_seen, previously_counted,
                   count, branch, listings, li, business_list, sink,
                   output_dir, error, failed, exit_status, detail,
                   sources>>

\* line 151, save_to_excel: make the directory, write the xlsx file
SaveExcel ==
    /\ pc = "save_excel"
    /\ output_dir' = TRUE
    /\ sink' = Append(sink, [query |-> search_for_index,
                             name |-> FileName(search_for),
                             xlsx |-> dataframe(business_list),
                             csv |-> None])
    /\ pc' = "save_csv"
    /\ UNCHANGED <<args, input_file, search_list, total, search_for_index,
                   search_for, browser, panel, links_seen, previously_counted,
                   count, branch, listings, li, business_list, error, failed,
                   exit_status, detail,
                   sources>>

\* line 152, save_to_csv: make the directory when it is not there, write
\* the csv file; the for loop of line 95 then takes the next query
SaveCsv ==
    /\ pc = "save_csv"
    /\ output_dir' = TRUE
    /\ sink' = [sink EXCEPT ![Len(sink)].csv = Some(dataframe(business_list))]
    /\ search_for_index' = search_for_index + 1
    /\ pc' = "for_search"
    \* the bookkeeping of the finished query is dropped
    /\ sources' = <<>>
    /\ failed' = {}
    /\ branch' = "none"
    /\ links_seen' = FALSE
    /\ UNCHANGED <<args, input_file, search_list, total, search_for, browser,
                   panel, previously_counted, count, listings, li,
                   business_list, error, exit_status, detail>>

\* the calls of main() that stand outside the try block of line 130
UnguardedSites == {"launch", "fill", "press", "hover", "scroll", "count",
                   "enum_target", "enum_all", "save_excel", "save_csv"}

\* any of them may raise (session lost, timeout, file not writable); nothing
\* catches it.  save_to_excel and save_to_csv make the directory (lines
\* 46-47 and 56-57) before they write, so a raise of to_excel or to_csv
\* leaves the directory behind; a raise of makedirs does not.
SessionFault ==
    /\ pc \in UnguardedSites
    /\ Raise(pc)
    /\ output_dir' \in (IF pc \in {"save_excel", "save_csv"}
                        THEN {output_dir, TRUE}
                        ELSE {output_dir})
    /\ UNCHANGED <<args, input_file, search_list, total, search_for_index,
                   search_for, panel, links_seen, previously_counted, count,
                   branch, listings, li, business_list, sink,
                   failed, detail,
                   sources>>

Next ==
    \/ ReadInput
    \/ Launch
    \/ NextSearch
    \/ CloseBrowser
    \/ Fill
    \/ PressEnter
    \/ Hover
    \/ Scroll
    \/ Count
    \/ EnumTarget
    \/ EnumAll
    \/ PanelChange
    \/ NewBatch
    \/ Click
    \/ Scrape
    \/ EndListings
    \/ SaveExcel
    \/ SaveCsv
    \/ SessionFault

Spec == Init /\ [][Next]_vars

----------------------------------------------------------------------------
(* extract_coordinates_from_url on its own: one listing of one query has   *)
(* been clicked and page.url is any of a bounded set of texts; the try     *)
(* block of lines 134-148 runs on it and the batch is saved.               *)

\* every text of at most n characters of A
Strings(A, n) == UNION { [1..k -> A] : k \in 0..n }

PartChars == {"/", "@", ",", "1"}
UrlChars == {"/", "@", ",", "1", ".", "-"}

\* decimal texts float() accepts
Numbers == { <<"1">>, <<"-", "1", ".", "5">> }

\* prefix/@<lat>,<lng>,<rest> for every prefix and every rest
FormedUrls ==
    { p \o <<"/", "@">> \o lat \o <<",">> \o lng \o <<",">> \o r :
        p \in Strings(PartChars, MaxPartLen),
        r \in Strings(PartChars, MaxPartLen),
        lat \in Numbers, lng \in Numbers }

\* every short text
ShortUrls == Strings(UrlChars, MaxUrlLen)

Urls == FormedUrls \cup ShortUrls

\* the state after the click of line 131 on the only listing of -s "a b" -t 1
ParseInit ==
    /\ pc = "scrape"
    /\ \E u \in Urls : detail = Some([FullView EXCEPT !.url = u])
    /\ args = [search |-> Some(<<"a", " ", "b">>), total |-> Some(1)]
    /\ input_file = None
    /\ search_list = << <<"a", " ", "b">> >>
    /\ total = 1
    /\ search_for_index = 1
    /\ search_for = <<"a", " ", "b">>
    /\ browser = "open"
    /\ panel = 0
    /\ links_seen = TRUE
    /\ previously_counted = 0
    /\ count = 1
    /\ branch = "target"
    /\ listings = TargetListings(1, 1)
    /\ li = 1
    /\ business_list = <<>>
    /\ sources = <<>>
    /\ sink = <<>>
    /\ output_dir = FALSE
    /\ error = "none"
    /\ failed = {}
    /\ exit_status = None

ParseNext ==
    \/ Scrape
    \/ EndListings
    \/ SaveExcel
    \/ SaveCsv

SpecParse == ParseInit /\ [][ParseNext]_vars

----------------------------------------------------------------------------
(* The discovery loop of one query on a panel that only grows: the first   *)
(* query of -s "a b" with a positive target, from the fill of line 99 to   *)
(* the end of the while loop.  The page calls of the loop return, and the  *)
(* program goes on from one statement to the next.                         *)

\* Values of -t that give a positive target
PositiveTotalArgs == { a \in TotalArgs : TotalOf([total |-> a]) > 0 }

\* the state after line 97 for the first query
LoopInit ==
    /\ pc = "fill"
    /\ args \in [search : {Some(<<"a", " ", "b">>)}, total : PositiveTotalArgs]
    /\ input_file \in InputFiles
    /\ search_list = SearchListOf(args, input_file)
    /\ total = TotalOf(args)
    /\ search_for_index = 1
    /\ search_for = Strip(search_list[1])
    /\ browser = "open"
    /\ panel = 0
    /\ links_seen = FALSE
    /\ previously_counted = 0
    /\ count = 0
    /\ branch = "none"
    /\ listings = <<>>
    /\ li = 0
    /\ detail = None
    /\ business_list = <<>>
    /\ sources = <<>>
    /\ sink = <<>>
    /\ output_dir = FALSE
    /\ error = "none"
    /\ failed = {}
    /\ exit_status = None

\* the page renders more place links, never fewer
PanelGrow ==
    /\ pc \in {"hover", "scroll", "count", "enum_target", "enum_all"}
    /\ \E n \in (panel + 1)..MaxPanel :
          /\ panel' = n
          /\ links_seen' = TRUE
    /\ UNCHANGED <<pc, args, input_file, search_list, total, search_for_index,
                   search_for, browser, previously_counted, count, branch,
                   listings, li, business_list, sources, sink, output_dir,
                   error, failed, exit_status, detail>>

LoopNext ==
    \/ Fill
    \/ PressEnter
    \/ Hover
    \/ Scroll
    \/ Count
    \/ EnumTarget
    \/ EnumAll
    \/ PanelGrow

\* every statement of the loop body is followed by the next one
LoopFairness ==
    /\ WF_vars(Scroll)
    /\ WF_vars(Count)
    /\ WF_vars(EnumTarget)
    /\ WF_vars(EnumAll)

SpecLoop == LoopInit /\ [][LoopNext]_vars /\ LoopFairness

TypeOK ==
    /\ pc \in {"start", "exited", "launch", "for_search", "fill", "press",
               "hover", "scroll", "count", "enum_target", "enum_all",
               "new_batch", "for_listing", "scrape", "save_excel", "save_csv",
               "done", "crashed"}
    /\ browser \in {"closed", "open"}
    /\ panel \in 0..MaxPanel
    /\ branch \in {"none", "target", "nogrowth"}
    /\ li \in 0..(MaxPanel + 1)
    /\ Len(sink) <= MaxQueries

----------------------------------------------------------------------------
(* Properties *)

\* the elements of a finite set of integers in increasing order
RECURSIVE Ordered(_)
Ordered(S) ==
    IF S = {} THEN <<>>
    ELSE LET m == CHOOSE x \in S : \A y \in S : x <= y
         IN  <<m>> \o Ordered(S \ {m})

Collecting == pc \in {"for_listing", "scrape", "save_excel", "save_csv"}
Collected == pc \in {"save_excel", "save_csv"}

\* C1: Record Collector failure isolation.  Whatever entries raise in the
\* try block, the batch holds exactly one record for each entry handled so
\* far that did not raise, none for one that did, in discovery order, and
\* when the loop is over every entry of listings has been handled.
C1_FailureIsolation ==
    Collecting =>
        LET handled == 1..(li - 1)
            kept == Ordered(handled \ failed)
        IN  /\ failed \subseteq handled
            /\ sources =
                   [k \in 1..Len(kept) |-> <<search_for_index, kept[k]>>]
            /\ Collected => li = Len(listings) + 1

\* the first of two entries raised and the second is in the batch
C1_Witness ==
    /\ pc = "save_excel"
    /\ Len(listings) = 2
    /\ failed = {1}
    /\ sources = << <<search_for_index, 2>> >>

\* C2: Discovery loop, no-growth termination.  For a positive target, when
\* the loop ends because the count is below the target and equals the
\* previous count, the entry list has exactly that count of entries.
C2_NoGrowthExactCount ==
    (pc = "new_batch" /\ branch = "nogrowth" /\ total > 0) =>
        /\ count < total
        /\ count = previously_counted
        /\ Len(listings) = count

\* C3: Discovery loop, target-reached termination.  For a positive target,
\* when the loop ends because the count reached the target, the entry list
\* has exactly target entries, the first target links of the panel.
C3_TargetExactTotal ==
    (pc = "new_batch" /\ branch = "target" /\ total > 0) =>
        /\ count >= total
        /\ Len(listings) = total
        /\ \A i \in 1..Len(listings) : listings[i].idx = i

\* the regions of a detail view that line 139, line 140 and the coordinate
\* parser read are all usable
RestParses(v) ==
    /\ ReviewsCount(v) # None
    /\ ReviewsAverage(v) # None
    /\ extract_coordinates_from_url(v.url) # None

\* C4: Field Extractor.  Reading name, address, website and phoneNumber
\* never raises: when the rest of the detail view parses, the record is
\* appended, and each of the three text fields is the text of its region,
\* or the empty string when the region is missing or empty.
C4_TextFieldsNeverRaise ==
    [][ (pc = "scrape" /\ pc' = "for_listing" /\ RestParses(Val(detail))) =>
          /\ Len(business_list') = Len(business_list) + 1
          /\ LET b == business_list'[Len(business_list')]
                 v == Val(detail)
             IN  /\ b.address = OrEmpty(v.address)
                 /\ b.website = OrEmpty(v.website)
                 /\ b.phone_number = OrEmpty(v.phone) ]_vars

\* query i has reached the output sink: both its files are written
Delivered(i) ==
    \E k \in 1..Len(sink) : sink[k].query = i /\ sink[k].csv # None

\* C5: Query independence.  An exception raised while one query is
\* processed does not keep any later query of the list from reaching the
\* output sink.
C5_QueryIndependence ==
    (pc = "crashed" /\ search_for_index >= 1) =>
        \A i \in (search_for_index + 1)..Len(search_list) : Delivered(i)

\* C6: Empty discovery end-to-end.  A query whose results panel has held no
\* place link since Enter was pressed is not ended by an error of its own:
\* main() leaves it only through a fault of the session, and once it is
\* saved its batch is empty.
C6_EmptyDiscovery ==
    /\ (pc = "crashed" /\ ~links_seen) => error \in UnguardedSites
    /\ (pc = "save_csv" /\ ~links_seen) => sink[Len(sink)].xlsx = <<>>

\* C7: Missing query source.  With no -s argument and no line in input.txt
\* the process ends with a non-zero exit status, before a browser is opened
\* and before anything is written.
C7_MissingQuerySource ==
    pc = "exited" =>
        /\ ~TruthyStr(args.search)
        /\ (input_file = None \/ Val(input_file) = <<>>)
        /\ browser = "closed"
        /\ sink = <<>>
        /\ ~output_dir
        /\ exit_status # None
        /\ Val(exit_status) # 0

Paired(b) == (b.latitude = None) <=> (b.longitude = None)
AllPaired(rows) == \A i \in 1..Len(rows) : Paired(rows[i])

\* C8: Coordinate pairing.  In every record of the batch being built and of
\* every file written, latitude and longitude are both present or both
\* absent.
C8_CoordinatePairing ==
    /\ AllPaired(dataframe(business_list))
    /\ \A k \in 1..Len(sink) :
          /\ AllPaired(sink[k].xlsx)
          /\ sink[k].csv # None => AllPaired(Val(sink[k].csv))

\* a written batch that kept an entry with coordinates and dropped another
C8_Witness ==
    /\ pc = "save_csv"
    /\ failed # {}
    /\ \E k \in 1..Len(sink) :
          /\ \E i \in 1..Len(sink[k].xlsx) :
                /\ sink[k].xlsx[i].latitude = Some(Finite(15, 1))
                /\ sink[k].xlsx[i].longitude = Some(Finite(-2, 0))

InQuery == pc \in {"fill", "press", "hover", "scroll", "count", "enum_target",
                   "enum_all", "new_batch", "for_listing", "scrape",
                   "save_excel"}

C9_State ==
    \* the sink holds one batch per query saved, in query order
    /\ \A k \in 1..Len(sink) : sink[k].query = k
    \* while query i is worked on, queries 1..i-1 are written out in full
    /\ InQuery =>
          /\ Len(sink) = search_for_index - 1
          /\ \A k \in 1..Len(sink) : sink[k].csv # None
    /\ pc = "save_csv" => Len(sink) = search_for_index
    /\ pc = "done" =>
          /\ Len(sink) = Len(search_list)
          /\ \A i \in 1..Len(search_list) : Delivered(i)
    \* the entry list is in discovery order and so is the batch
    /\ Collecting =>
          /\ \A i \in 1..Len(listings) : listings[i].idx = i
          /\ \A i, j \in 1..Len(sources) :
                i < j => sources[i][2] < sources[j][2]

C9_Step ==
    \* queries are taken one by one, the next only after the csv is written
    /\ search_for_index' # search_for_index =>
          /\ search_for_index' = search_for_index + 1
          /\ pc \in {"launch", "save_csv"}
    /\ search_for' # search_for =>
          search_for' = Strip(search_list[search_for_index])
    \* entries are taken one by one from the first
    /\ li' # li => \/ li' = li + 1
                   \/ pc = "new_batch" /\ li' = 1

\* C9: Ordering.  Queries are processed one after another in the order
\* given, the entries of a query in discovery order; the output of query i
\* is written before any browser action of query i+1, and the sink gets
\* exactly one batch per query, in query order.
C9_Ordering == []C9_State /\ [][C9_Step]_vars

\* two queries ran to the end, the second with two records in its batch
C9_Witness ==
    /\ pc = "done"
    /\ Len(sink) = 2
    /\ Len(sink[2].xlsx) = 2

C10_State ==
    \* every record of a batch comes from an entry of the batch's query
    /\ Collecting =>
          /\ Len(sources) = Len(business_list)
          /\ \A i \in 1..Len(sources) : sources[i][1] = search_for_index
    \* both files hold the same batch
    /\ \A k \in 1..Len(sink) :
          sink[k].csv # None => Val(sink[k].csv) = sink[k].xlsx

C10_Step ==
    \* the batch starts empty and only grows by one record of this query
    /\ pc = "new_batch" => business_list' = <<>>
    /\ (pc # "new_batch" /\ business_list' # business_list) =>
          /\ pc = "scrape"
          /\ Len(business_list') = Len(business_list) + 1
          /\ SubSeq(business_list', 1, Len(business_list)) = business_list
          /\ sources' = Append(sources, <<search_for_index, li>>)
    \* it is handed over once the loop over listings is finished
    /\ Len(sink') # Len(sink) =>
          /\ pc = "save_excel"
          /\ li = Len(listings) + 1
          /\ Len(sink') = Len(sink) + 1
          /\ sink'[Len(sink')].xlsx = dataframe(business_list)
          /\ sink'[Len(sink')].query = search_for_index
    /\ (pc = "save_csv" /\ sink' # sink) =>
          sink'[Len(sink')].csv = Some(dataframe(business_list))
    \* what was handed over does not change
    /\ \A k \in 1..Len(sink) :
          /\ sink'[k].xlsx = sink[k].xlsx
          /\ sink'[k].query = sink[k].query
          /\ sink[k].csv # None => sink'[k].csv = sink[k].csv

\* C10: Record Batch lifecycle.  Each query has its own batch: it starts
\* empty, grows only by records of that query's entries, reaches the sink
\* when the collection of the query is over and does not change after; no
\* record is in the batch of another query, and the xlsx and the csv of a
\* query hold the same batch.
C10_BatchLifecycle == []C10_State /\ [][C10_Step]_vars

\* two queries written in full, each with a batch that holds a record
C10_Witness ==
    /\ Len(sink) = 2
    /\ sink[1].xlsx # <<>>
    /\ sink[2].xlsx # <<>>
    /\ sink[2].csv # None

\* the clicked handle and the three text regions of a detail view exist
\* and its URL parses
TextAndUrlParse(v) ==
    /\ v.label_found
    /\ TextContent(v.address) # None
    /\ TextContent(v.website) # None
    /\ TextContent(v.phone) # None
    /\ extract_coordinates_from_url(v.url) # None

\* C11: Field Extractor.  When the "more reviews" control is missing from
\* the detail view and the rest of the view extracts, the record is appended
\* and its reviews_count is None, not zero; likewise reviews_average is None
\* when the rating image is missing.
C11_AbsentReviews ==
    [][ (pc = "scrape" /\ pc' = "for_listing") =>
          LET v == Val(detail)
              b == business_list'[Len(business_list')]
          IN  /\ (~v.reviews_seen /\ TextAndUrlParse(v)
                     /\ ReviewsAverage(v) # None) =>
                    /\ Len(business_list') = Len(business_list) + 1
                    /\ b.reviews_count = None
              /\ (~v.rating_seen /\ TextAndUrlParse(v)
                     /\ ReviewsCount(v) # None) =>
                    /\ Len(business_list') = Len(business_list) + 1
                    /\ b.reviews_average = None ]_vars

\* a record without review count and without rating is in the batch
C11_Witness ==
    /\ pc = "for_listing"
    /\ business_list # <<>>
    /\ business_list[Len(business_list)].reviews_count = None
    /\ business_list[Len(business_list)].reviews_average = None
    /\ business_list[Len(business_list)].latitude # None

\* the URL holds the coordinate marker
HasMarker(url) == Find(url, <<"/", "@">>) # 0

\* what follows the first '/@' of a URL that has one, up to the next '/'
FirstMarkerSegment(url) == Split(Split(url, <<"/", "@">>)[2], <<"/">>)[1]

\* the first two comma-delimited tokens of a segment as numbers, None when
\* there are fewer than two or one of them is not a number
PairOf(segment) ==
    LET tokens == Split(segment, <<",">>)
    IN  IF Len(tokens) < 2 THEN None
        ELSE IF ParseFloat(tokens[1]) = None \/ ParseFloat(tokens[2]) = None
        THEN None
        ELSE Some(<<Val(ParseFloat(tokens[1])), Val(ParseFloat(tokens[2]))>>)

\* prefix/@<lat>,<lng>,<rest>, the marker shown being the first of the URL
OfTheForm(url) ==
    /\ HasMarker(url)
    /\ Len(Split(FirstMarkerSegment(url), <<",">>)) >= 3
    /\ PairOf(FirstMarkerSegment(url)) # None

\* C12: Coordinate Parser result.  For every URL prefix/@<lat>,<lng>,<rest>
\* the record gets the pair (lat, lng) parsed from the segment that follows
\* the first '/@' of the URL, up to the next '/'.
C12_FirstMarker ==
    [][ (pc = "scrape" /\ OfTheForm(Val(detail).url)) =>
          LET pair == Val(PairOf(FirstMarkerSegment(Val(detail).url)))
          IN  /\ Len(business_list') = Len(business_list) + 1
              /\ business_list'[Len(business_list')].latitude = Some(pair[1])
              /\ business_list'[Len(business_list')].longitude = Some(pair[2])
      ]_vars

\* C13: Coordinate Parser failure.  The parse fails for every URL without
\* '/@', for every URL whose coordinate segment has fewer than two
\* comma-delimited tokens and for every URL one of whose first two tokens is
\* not a number; the listing is then dropped and the batch goes on.
C13_ParseFailure ==
    [][ (pc = "scrape"
           /\ \/ ~HasMarker(Val(detail).url)
              \/ PairOf(FirstMarkerSegment(Val(detail).url)) = None) =>
          /\ business_list' = business_list
          /\ failed' = failed \cup {li}
          /\ li' = li + 1
          /\ pc' = "for_listing"
          /\ error' = error ]_vars

\* the while loop of line 108 has ended
LoopDone == pc = "new_batch"

\* C14: Discovery loop termination.  When the panel only grows and its size
\* is bounded, the loop of every positive target ends; it ends at the first
\* count that reaches the target or equals the previous count, and goes on
\* at any other count.
C14_LoopTerminates ==
    /\ (pc = "scroll" /\ total > 0) ~> LoopDone
    /\ [][ pc = "count" =>
             IF panel >= total \/ panel = previously_counted
             THEN pc' \in {"count", "enum_target", "enum_all"}
             ELSE pc' \in {"count", "scroll"} ]_vars
    /\ [][ (pc = "enum_target" \/ pc = "enum_all") =>
             (pc' = pc \/ pc' = "new_batch") ]_vars

\* the loop has ended in the no-growth branch after more than one iteration
C14_Witness ==
    /\ LoopDone
    /\ branch = "nogrowth"
    /\ total > 0
    /\ previously_counted > 0

\* the phases of one query, in the order of lines 99-152
Phase(p) ==
    CASE p = "fill" -> 1
      [] p = "press" -> 2
      [] p \in {"hover", "scroll", "count", "enum_target", "enum_all"} -> 3
      [] p \in {"new_batch", "for_listing", "scrape"} -> 4
      [] p \in {"save_excel", "save_csv"} -> 5
      [] OTHER -> 0

C15_State ==
    \* an entry is activated only after the loop has ended
    /\ pc \in {"for_listing", "scrape"} => branch # "none"
    \* once the loop has ended this query neither scrolls nor counts
    /\ (branch # "none" /\ pc # "crashed") => Phase(pc) \in {4, 5}

C15_Step ==
    \* within a query the phases follow each other, none skipped
    /\ (Phase(pc) > 0 /\ Phase(pc') > 0) =>
           (Phase(pc') = Phase(pc) \/ Phase(pc') = Phase(pc) + 1)
    \* collection starts from the end of the loop only
    /\ (pc' = "new_batch" /\ pc # "new_batch") =>
           (pc = "enum_target" \/ pc = "enum_all")
    \* the first thing after the hover and after a count that goes on is a
    \* scroll, and a count follows a scroll only
    /\ (pc = "hover" /\ Phase(pc') > 0) => (pc' = "hover" \/ pc' = "scroll")
    /\ (pc' = "count" /\ pc # "count") => pc = "scroll"
    /\ (pc' = "count" /\ pc = "count") =>
           UNCHANGED <<count, previously_counted>>
    /\ (pc = "scroll" /\ Phase(pc') > 0) => (pc' = "scroll" \/ pc' = "count")

\* C15: Per-query phase ordering.  Within one query the steps are fill,
\* Enter, discovery loop, record collection, output, in this order; no
\* listing is clicked before the loop has ended, nothing is scrolled after
\* it has ended, and every iteration of the loop scrolls before it counts.
C15_PhaseOrdering == []C15_State /\ [][C15_Step]_vars

\* a query went through every phase with a loop of more than one iteration
C15_Witness ==
    /\ pc = "save_csv"
    /\ branch # "none"
    /\ previously_counted > 0
    /\ business_list # <<>>

\* the kind of handle each termination branch puts in listings
HandleKind == IF branch = "target" THEN "parent" ELSE "link"

C16_State ==
    (pc = "new_batch" \/ Collecting) =>
        /\ branch \in {"target", "nogrowth"}
        /\ \A i \in 1..Len(listings) :
              /\ listings[i].kind = HandleKind
              /\ listings[i].idx = i

C16_Step ==
    \* the handle clicked is the entry of the list the for loop is at
    /\ (pc = "for_listing" /\ pc' = "scrape") =>
          /\ li \in 1..Len(listings)
          /\ li' = li
    \* the record made after the click is that entry's, and its name is
    \* the label read from the handle
    /\ (pc = "scrape" /\ Len(business_list') = Len(business_list) + 1) =>
          /\ listings[li].kind = HandleKind
          /\ sources'[Len(sources')] = <<search_for_index, li>>
          /\ business_list'[Len(business_list')].name
                = OrEmpty(Val(detail).label)

\* C16: Entry handle resolution.  After the target-reached branch every
\* handle of the list is the parent of a place link, after the no-growth
\* branch every handle is the place link itself; the handle of the list is
\* the one clicked and the one whose aria-label becomes the record's name.
C16_HandleResolution == []C16_State /\ [][C16_Step]_vars

\* a record with a name was made from a parent handle
C16_Witness ==
    /\ pc = "for_listing"
    /\ branch = "target"
    /\ listings # <<>>
    /\ listings[1].kind = "parent"
    /\ business_list # <<>>
    /\ business_list[1].name = T("n")
    /\ sources[1][2] = 1

\* -t was given and is positive
PositiveCap == args.total # None /\ Val(args.total) > 0

\* C17: Cap on collected entries.  For every positive -t value and whatever
\* the panel shows, also when it changes between the count and the
\* enumeration, the final list of entries and the batch of records made
\* from it never hold more than -t elements.
C17_CapRespected ==
    (PositiveCap /\ (pc = "new_batch" \/ Collecting)) =>
        /\ Len(listings) <= Val(args.total)
        /\ Len(business_list) <= Val(args.total)

\* C18: Zero result cap.  -t 0 is treated as no -t at all: the target is
\* 1,000,000 and the loop runs until the panel stops growing, it does not
\* end with the target-reached branch and zero entries.
C18_ZeroCap ==
    (args.total = Some(0) /\ pc # "start") =>
        /\ total = DefaultTotal
        /\ total = TotalOf([args EXCEPT !.total = None])
        /\ pc # "enum_target"
        /\ branch # "target"

\* with -t 0 the loop ended by no growth after a growing panel, with entries
C18_Witness ==
    /\ args.total = Some(0)
    /\ pc = "for_listing"
    /\ branch = "nogrowth"
    /\ previously_counted > 0
    /\ listings # <<>>

\* the loop of this query is running or has just ended
InLoop == pc \in {"scroll", "count", "enum_target", "enum_all", "new_batch"}

C19_State ==
    total < 0 =>
        \* never the no-growth branch
        /\ pc # "enum_all"
        /\ branch # "nogrowth"
        \* no second iteration: previously_counted is never assigned
        /\ InLoop => previously_counted = 0
        \* the list cannot have total entries
        /\ (pc = "new_batch" \/ Collecting) => Len(listings) # total

C19_Step ==
    total < 0 =>
        \* the first count that returns takes the target-reached branch
        /\ (pc = "count" /\ pc' # "count") =>
              (pc' = "enum_target" \/ pc' = "crashed")
        /\ (pc = "count" /\ pc' = "count") => count' = count
        \* the list is what all() returns without its last -total links,
        \* each as its parent
        /\ (pc = "enum_target" /\ pc' = "new_batch") =>
              /\ Len(listings') = Max(panel + total, 0)
              /\ \A i \in 1..Len(listings') :
                    listings'[i] = Parent(AllLinks(panel)[i])

\* C19: Negative result cap.  With -t -k the loop ends at its first
\* iteration through the target-reached branch whatever the count is, and
\* the final list is the enumerated links without their last k, empty when
\* there are at most k; it never has exactly total entries.
C19_NegativeCap == []C19_State /\ [][C19_Step]_vars

\* with a negative -t a list that lost its last link is being collected
C19_Witness ==
    /\ total < 0
    /\ pc = "for_listing"
    /\ branch = "target"
    /\ listings # <<>>
    /\ business_list # <<>>

====
